---------------------------- MODULE Spec2Model ----------------------------
(***************************************************************************)
(* Payment-intermediation pipeline of rinha-de-backend-imp-2025.           *)
(*                                                                         *)
(*   api/src/main.rs            POST /payments: create_payment             *)
(*   payment-worker/src/main.rs PaymentWorker::process_payments and the    *)
(*                              PaymentProcessor it drives                 *)
(*   src/main.rs                the single-binary server: process_payment  *)
(*                                                                         *)
(* The queue broker, the Postgres table processed_payments and the two     *)
(* payment processors are the environment: every call to them may succeed  *)
(* or fail.  A worker is one payment-worker process; each await of its     *)
(* loop is one step.                                                       *)
(*                                                                         *)
(* The api sends to the queue payment_queue through rsmq_async (Redis) and *)
(* the worker reads the queue payment_queue through pgmq (Postgres).  The  *)
(* model joins the two into one queue: what the api sends, the worker      *)
(* reads.                                                                  *)
(***************************************************************************)
EXTENDS Integers, Sequences, FiniteSets, TLC

(***************************************************************************)
(* Bounds of the model.                                                    *)
(***************************************************************************)
MaxMsg == 2      \* messages produced: POST /payments requests and foreign payloads

Workers == {"w1", "w2"}
Cids == <<"A", "B">>     \* correlation ids, in the order clients first use them
Amounts == {10}
Procs == {"default", "fallback"}

NoMsg == [id |-> 0, cid |-> "none", amount |-> 0, at |-> 0, valid |-> FALSE]

MaxReq == 3      \* POST /payments requests to the single-binary server
Width == 4       \* bits of min_response_time: the model's u64 is Width bits wide

\* u64 arithmetic wraps at 2^Width.
Wrap == 2 ^ Width
U64 == 0..(Wrap - 1)

\* failed_response_time_value: u64::MAX unless FAILED_RESPONSE_TIME_VALUE is set.
failed_response_time_value == Wrap - 1

\* get_processor_health returned None: the key health:{name} is absent.
NoVerdict == [present |-> FALSE, failing |-> FALSE, min_response_time |-> 0]

\* ProcessorHealthStatus::new(failing, min_response_time), as read from the store.
ProcessorHealthStatus(failing, min_response_time) ==
    [present |-> TRUE, failing |-> failing, min_response_time |-> min_response_time]

Verdicts == {ProcessorHealthStatus(f, t) : f \in BOOLEAN, t \in U64}

MaxTime == 6     \* the clock stops here

\* rate_limit_ttl: RATE_LIMIT_TTL_SECS, 5 unless set.
rate_limit_ttl == 5

NoTime == -1

\* payment-worker: a cache entry is checked again once it is 5 seconds old,
\* and ProcessorHealth::default makes it 10 seconds old.
worker_check_interval == 5
initial_age == 10

\* payment-worker: the visibility timeout passed to queue.read, and the
\* timeouts of the health probe and of the payment POST, in seconds.
visibility_timeout_seconds == 30
check_health_timeout == 5
post_timeout == 30
MaxLeaseTime == 31   \* the clock of SpecLease stops here

\* health_status_ttl: HEALTH_STATUS_TTL_SECS, 30 unless set.
health_status_ttl == 30
MaxStoreTime == 31   \* the clock of SpecStore stops here

\* No response body.
NoBody == [kind |-> "none", failing |-> FALSE, min_response_time |-> 0]

\* No probe has come back yet.
NoExchange == [net |-> "none", status |-> 0, body |-> NoBody, stored |-> "none"]

\* The cargo profiles: overflow checks are on in debug and off in release.
Builds == {"debug", "release"}

\* src/main.rs: the handlers that may be inside is_processor_healthy at once.
Callers == {"h1", "h2"}
\* An entry of health_cache is good for 6 seconds; a check is allowed 5
\* seconds after the last recorded one; the probe times out after 2.
cache_ttl == 6
min_check_interval == 5
probe_timeout == 2
\* No entry in health_cache.
NoHealth == [present |-> FALSE, failing |-> FALSE, cached_at |-> 0]
CidSet == {Cids[i] : i \in 1..Len(Cids)}

\* health-checker: the tasks that may be inside check_processor_health at once.
Monitors == {"m1", "m2"}

\* health_check_cycle_interval: HEALTH_CHECK_CYCLE_INTERVAL_SECS, 4 unless set.
health_check_cycle_interval == 4

ConfigWidth == 7     \* bits of a parsed setting: wide enough for the defaults

\* The largest value parse::<u64> returns.
ConfigMax == 2 ^ ConfigWidth - 1

\* std::env::var(name) returned Err: the variable is not set.
Unset == [set |-> FALSE]

\* from_env has not been called yet.
NotStarted == [called |-> FALSE]

\* The variables from_env reads, in the order it reads them.
EnvNames == {"REDIS_URL", "HEALTH_CHECK_CYCLE_INTERVAL_SECS", "HTTP_TIMEOUT_SECS",
             "INTER_CHECK_DELAY_MILLIS", "HEALTH_STATUS_TTL_SECS",
             "RATE_LIMIT_TTL_SECS", "DEFAULT_PROCESSOR_URL",
             "FALLBACK_PROCESSOR_URL", "FAILED_RESPONSE_TIME_VALUE"}

\* DashMap::get on a key that was never inserted.
NoRecord == [correlation_id |-> "none", amount |-> 0, requested_at |-> 0,
             processor_used |-> "none"]

VARIABLES
    \* ---- api/src/main.rs
    responses,      \* request number -> [cid, amount, status]: what the client got
    enq,            \* request number -> the spawned send_message: none|pending|ok|failed
    clock,          \* Utc::now(), a logical clock
    \* ---- the queue payment_queue
    queue,          \* messages in the queue (not yet archived)
    invisible,      \* ids of messages whose visibility timeout has not ended
    nextId,         \* next msg_id
    poisoned,       \* number of unparseable payloads sent so far
    \* ---- payment-worker/src/main.rs, one entry per worker process
    pc,             \* position in process_payments
    cur,            \* the message of the current delivery
    chosen,         \* choose_processor's result for this delivery
    attempts,       \* processor calls of this delivery: <<[proc, ok]>>
    persist,        \* save_processed_payment of this delivery: none|inserted|conflict|error
    ack,            \* queue.archive of this delivery: none|ok|error
    cause,          \* why process_payments returned: none|read|parse|archive
    charged,        \* msg_id -> processor calls for the message that returned 2xx
    \* ---- Postgres table processed_payments
    ledger,         \* set of rows [cid, amount, at, processor]
    \* ---- src/main.rs, the single-binary server
    requests,           \* POST /payments handlers: <<[cid, amount, at, url, pc]>>
    payments_storage,   \* AppState.payments_storage: correlation id -> PaymentRecord
    stats,              \* default_stats, fallback_stats: [total_requests, total_amount]
    \* ---- health-checker: the health store (Redis) and the selection
    health,         \* key health:{name}: processor -> ProcessorHealthStatus, or none
    best,           \* what get_best_processor returned last
    picked,         \* what the worker's choose_processor picks for the same verdicts
    server_picked,  \* what the server's choose_best_processor picks for them
    \* ---- health-checker: the refresher (main's loop over check_processor_health)
    now,            \* the time, in seconds
    token,          \* key rate_limit:{name}: processor -> time it expires (0: absent)
    rpc,            \* position in check_processor_health: check|set|get|wait
    rproc,          \* the processor being refreshed
    ret,            \* how the last check_processor_health ended: [result, at]
    exchange,       \* the probe of the last call: what came back, whether a verdict was stored
    last_probe,     \* processor -> [prev, last]: times its last two probes were sent
    health_set_at,  \* processor -> time of the last SETEX of health:{name}, or NoTime
    \* ---- payment-worker/src/main.rs: PaymentProcessor's health cache, one worker
    worker_cache,       \* processor -> [is_healthy, last_checked]
    cache_lock,         \* the RwLock of health_cache: free|read|write
    wpc,                \* position of the worker's task: read|update|probe|post|post2
    wproc,              \* the processor update_health_if_needed was called for
    wpick,              \* what choose_processor returned for this message
    select_requests,    \* HTTP requests sent since the message was received
    \* ---- payment-worker/src/main.rs: one message of payment_queue over time
    vt,                 \* the time the message is visible again (pgmq's vt)
    archived,           \* the message was archived
    lpc,                \* worker -> read|probe_default|probe_fallback|post|post2|persist
    deadline,           \* worker -> the time the request it waits for times out
    \* ---- src/main.rs: AppState's health caches and the calls of is_processor_healthy
    health_cache,       \* processor -> (HealthStatus, Instant), or none
    last_health_check,  \* processor -> Instant of the last recorded check, or NoTime
    hpc,                \* caller -> idle|wait (at the await of send)
    hproc,              \* caller at the await -> the processor asked about
    hnow,               \* caller at the await -> `now` taken at the call's entry
    hret,               \* caller -> what its last call returned: none|true|false
    \* ---- health-checker/src/config.rs: the process environment and from_env
    env,                \* variable name -> its text, or Unset
    config,             \* what HealthCheckerConfig::from_env returned, or NotStarted
    \* ---- health-checker: concurrent calls of check_processor_health(default)
    cpc,                \* call -> check|set|get|done
    csaw,               \* call -> the time its check_rate_limit returned true
    issued,             \* call -> csaw of the last probe it sent, or NoTime
    \* ---- health-checker/src/main.rs: the loop, with the time its awaits take
    wake,               \* the time the sleep ends
    \* ---- health-checker/src/health_storage.rs: MockHealthStorage next to Redis
    health_data,        \* MockHealthStorage.health_data: processor -> verdict
    rate_limits,        \* MockHealthStorage.rate_limits: processor -> timestamp
    seen                \* the last call made on both: [op, redis, mock]

vars == <<responses, enq, clock, queue, invisible, nextId, poisoned, pc, cur,
          chosen, attempts, persist, ack, cause, charged, ledger, requests,
          payments_storage, stats, health, best, picked, server_picked,
          now, token, rpc, rproc, ret, exchange, last_probe, health_set_at,
          worker_cache, cache_lock, wpc, wproc, wpick, select_requests,
          vt, archived, lpc, deadline,
          health_cache, last_health_check, hpc, hproc, hnow, hret,
          env, config, cpc, csaw, issued, wake, health_data, rate_limits, seen>>

apiVars == <<responses, enq, clock>>
queueVars == <<queue, invisible, nextId, poisoned>>
workerVars == <<pc, cur, chosen, attempts, persist, ack, cause>>
serverVars == <<requests, payments_storage, stats>>
selectVars == <<best, picked, server_picked>>
timeVars == <<now, last_probe>>
oracleVars == <<token, rpc, rproc, ret, exchange>>
cacheVars == <<health_cache, last_health_check, hpc, hproc, hnow, hret>>
chooseVars == <<worker_cache, cache_lock, wpc, wproc, wpick, select_requests>>
leaseVars == <<vt, archived, lpc, deadline>>
configVars == <<env, config>>
raceVars == <<cpc, csaw, issued>>
mockVars == <<health_data, rate_limits, seen>>
extVars == <<configVars, raceVars, wake, mockVars>>
healthVars == <<health, selectVars, timeVars, oracleVars, cacheVars,
                health_set_at, chooseVars, leaseVars, extVars>>
pipelineVars == <<responses, enq, queueVars, workerVars, charged, ledger>>
baseVars == <<pipelineVars, serverVars, clock, health, selectVars, timeVars,
              oracleVars, cacheVars, health_set_at, chooseVars, leaseVars>>

Reqs == 1..MaxMsg

(***************************************************************************)
(* Pure helpers.                                                           *)
(***************************************************************************)
Ids(q) == {m.id : m \in q}

Min(S) == CHOOSE x \in S : \A y \in S : x <= y

\* choose_processor, after the two update_health_if_needed calls.
choose_processor(h) ==
    IF h["default"].is_healthy THEN "default"
    ELSE IF h["fallback"].is_healthy THEN "fallback"
    ELSE "default"

\* process_payment: "Try the other processor as fallback".
other_processor(p) == IF p = "default" THEN "fallback" ELSE "default"

\* The clock counts half microseconds: Utc::now() is finer than a microsecond.
TicksPerMicro == 2

\* .bind(message.requested_at): sqlx sends a DateTime<Utc> as a timestamptz,
\* the whole microseconds since the Postgres epoch; what is below is dropped.
timestamptz(t) == t - (t % TicksPerMicro)

\* message.requested_at.to_rfc3339(): the text of the instant, with all the
\* digits of its fraction of a second.
to_rfc3339(t) == [rfc3339 |-> t]

\* The instant a text of to_rfc3339 denotes.
parse_from_rfc3339(text) == text.rfc3339

\* Mutant: the INSERT without its ON CONFLICT clause, into a table without the
\* unique index the clause needs.
save_without_on_conflict(led, m, p) ==
    led \cup {[cid |-> m.cid, amount |-> m.amount, at |-> timestamptz(m.at),
               processor |-> p]}

\* INSERT ... ON CONFLICT (correlation_id) DO NOTHING.
save_processed_payment(led, m, p) ==
    IF \E r \in led : r.cid = m.cid
    THEN led
    ELSE led \cup {[cid |-> m.cid, amount |-> m.amount, at |-> timestamptz(m.at),
                    processor |-> p]}

Has2xx(w) == \E i \in 1..Len(attempts[w]) : attempts[w][i].ok

\* Mutant: the row names the processor chosen first.
used_processor_chosen(w) == attempts[w][1].proc

\* The processor process_payment hands back with Ok: the one called last.
used_processor(w) == attempts[w][Len(attempts[w])].proc

(***************************************************************************)
(* Control flow of process_payments: where the loop goes when the call it  *)
(* awaits ends.  Positions: read, process, save, archive, done (end of the *)
(* loop body), returned (process_payments has returned, the process ends). *)
(***************************************************************************)
\* self.queue.read(..).await? { Some(message) => .., None => sleep }
after_read(outcome) ==
    CASE outcome = "some" -> "process"
      [] outcome = "none" -> "read"          \* sleep 250 ms and loop
      [] OTHER -> "returned"                 \* Err: the ? returns it

\* Mutant: the Ok arm archives without saving first.
after_process_archive_first(outcome) == "archive"

\* match self.processor.process_payment(..).await { Ok(..) => .., Err(e) => .. }
after_process(outcome) ==
    IF outcome = "ok" THEN "save"            \* Ok arm: save, then archive
    ELSE "archive"                           \* Err arm: archive (line 325)

\* Mutant: self.save_processed_payment(..).await? in place of the if let.
after_save_propagating(outcome) ==
    IF outcome = "ok" THEN "archive" ELSE "returned"

\* if let Err(e) = self.save_processed_payment(..).await { println!(..) }
after_save(outcome) == "archive"

\* self.queue.archive(..).await?
after_archive(outcome) ==
    IF outcome = "ok" THEN "done" ELSE "returned"

Goto(w, to) == pc' = [pc EXCEPT ![w] = to]

\* The count of 2xx answers is kept for a message as long as a processor can
\* still be called for it: while it is in the queue or a worker holds it.
Settle(ch, q, held) ==
    [i \in DOMAIN ch |->
       IF i \in Ids(q) \/ (\E w \in Workers : held[w].id = i) THEN ch[i] ELSE 0]

(***************************************************************************)
(* Initial state: empty queue and table, every worker about to read.       *)
(***************************************************************************)
Init ==
    /\ responses = <<>>
    /\ enq = [r \in Reqs |-> "none"]
    /\ clock = 1
    /\ queue = {}
    /\ invisible = {}
    /\ nextId = 1
    /\ poisoned = 0
    /\ pc = [w \in Workers |-> "read"]
    /\ cur = [w \in Workers |-> NoMsg]
    /\ chosen = [w \in Workers |-> "none"]
    /\ attempts = [w \in Workers |-> <<>>]
    /\ persist = [w \in Workers |-> "none"]
    /\ ack = [w \in Workers |-> "none"]
    /\ cause = [w \in Workers |-> "none"]
    /\ charged = [i \in 1..MaxMsg |-> 0]
    /\ ledger = {}
    /\ requests = <<>>
    /\ payments_storage = [c \in CidSet |-> NoRecord]
    /\ stats = [p \in Procs |-> [total_requests |-> 0, total_amount |-> 0]]
    /\ health = [p \in Procs |-> NoVerdict]
    /\ best = "none"
    /\ picked = "none"
    /\ server_picked = "none"
    /\ now = 0
    /\ token = [p \in Procs |-> 0]
    /\ rpc = "check"
    /\ rproc = "default"
    /\ ret = [result |-> "none", at |-> "none"]
    /\ exchange = NoExchange
    /\ last_probe = [p \in Procs |-> [prev |-> NoTime, last |-> NoTime]]
    /\ health_set_at = [p \in Procs |-> NoTime]
    /\ worker_cache = [p \in Procs |->
                         [is_healthy |-> TRUE, last_checked |-> 0 - initial_age]]
    /\ cache_lock = "free"
    /\ wpc = "read"
    /\ wproc = "default"
    /\ wpick = "none"
    /\ select_requests = 0
    /\ vt = 0
    /\ archived = FALSE
    /\ lpc = [w \in Workers |-> "read"]
    /\ deadline = [w \in Workers |-> 0]
    /\ health_cache = [p \in Procs |-> NoHealth]
    /\ last_health_check = [p \in Procs |-> NoTime]
    /\ hpc = [c \in Callers |-> "idle"]
    /\ hproc = [c \in Callers |-> "default"]
    /\ hnow = [c \in Callers |-> 0]
    /\ hret = [c \in Callers |-> "none"]
    /\ env = [n \in EnvNames |-> Unset]
    /\ config = NotStarted
    /\ cpc = [m \in Monitors |-> "done"]
    /\ csaw = [m \in Monitors |-> NoTime]
    /\ issued = [m \in Monitors |-> NoTime]
    /\ wake = 0
    /\ health_data = [p \in Procs |-> NoVerdict]
    /\ rate_limits = [p \in Procs |-> NoTime]
    /\ seen = [op |-> "none", redis |-> "none", mock |-> "none"]

(***************************************************************************)
(* api/src/main.rs: create_payment.  The handler spawns the enqueue and    *)
(* answers 202 at once; the spawned task stamps requested_at and sends.    *)
(***************************************************************************)
\* The correlation ids a client may send: one sent before, or the next new one.
Submitted == {responses[r].cid : r \in 1..Len(responses)}

NextCids == Submitted \cup {Cids[i] : i \in {j \in 1..Len(Cids) :
                                \A k \in 1..(j - 1) : Cids[k] \in Submitted}}

create_payment(c, a) ==
    /\ Len(responses) + poisoned < MaxMsg
    /\ c \in NextCids
    /\ responses' = Append(responses, [cid |-> c, amount |-> a, status |-> 202])
    /\ enq' = [enq EXCEPT ![Len(responses) + 1] = "pending"]
    /\ UNCHANGED <<healthVars, serverVars, charged, clock, queueVars, workerVars, ledger>>

\* The spawned task: requested_at = Utc::now(), and send_message returned Ok.
\* The clock gives each message sent a stamp of its own.
send_message_ok(r) ==
    /\ enq[r] = "pending"
    /\ queue' = queue \cup {[id |-> nextId, cid |-> responses[r].cid,
                             amount |-> responses[r].amount, at |-> clock,
                             valid |-> TRUE]}
    /\ nextId' = nextId + 1
    /\ clock' = clock + 1
    /\ enq' = [enq EXCEPT ![r] = "ok"]
    /\ UNCHANGED <<healthVars, serverVars, charged, responses, invisible, poisoned, workerVars, ledger>>

\* The spawned task: send_message returned Err, which is printed and dropped.
send_message_err(r) ==
    /\ enq[r] = "pending"
    /\ enq' = [enq EXCEPT ![r] = "failed"]
    /\ UNCHANGED <<healthVars, serverVars, charged, responses, clock, queueVars, workerVars, ledger>>

(***************************************************************************)
(* The queue.                                                              *)
(***************************************************************************)
\* A producer other than the api puts a payload on payment_queue that is not
\* a PaymentMessage.
foreign_send ==
    /\ Len(responses) + poisoned < MaxMsg
    /\ poisoned' = poisoned + 1
    /\ queue' = queue \cup {[NoMsg EXCEPT !.id = nextId]}
    /\ nextId' = nextId + 1
    /\ UNCHANGED <<healthVars, serverVars, charged, apiVars, invisible, workerVars, ledger>>

\* The visibility timeout of a reserved message ends.
visibility_timeout(i) ==
    /\ i \in invisible
    /\ invisible' = invisible \ {i}
    /\ UNCHANGED <<healthVars, serverVars, charged, apiVars, queue, nextId, poisoned, workerVars, ledger>>

Visible == {m \in queue : m.id \notin invisible}

\* pgmq read: the visible message with the smallest msg_id.
Oldest == CHOOSE m \in Visible : m.id = Min(Ids(Visible))

(***************************************************************************)
(* payment-worker/src/main.rs: PaymentWorker::process_payments.            *)
(***************************************************************************)
\* queue.read returned Some(message): the message is reserved for 30 s.
read_message(w) ==
    /\ pc[w] = "read"
    /\ Visible # {}
    /\ Oldest.valid
    /\ cur' = [cur EXCEPT ![w] = Oldest]
    /\ invisible' = invisible \cup {Oldest.id}
    /\ Goto(w, after_read("some"))
    /\ UNCHANGED <<healthVars, serverVars, charged, apiVars, queue, nextId, poisoned, chosen, attempts,
                   persist, ack, cause, ledger>>

\* queue.read::<PaymentMessage> reserved a message whose payload does not
\* deserialize: it returns Err, and the ? returns it from process_payments.
read_unparseable(w) ==
    /\ pc[w] = "read"
    /\ Visible # {}
    /\ ~Oldest.valid
    /\ cur' = [cur EXCEPT ![w] = Oldest]
    /\ invisible' = invisible \cup {Oldest.id}
    /\ cause' = [cause EXCEPT ![w] = "parse"]
    /\ Goto(w, after_read("err"))
    /\ UNCHANGED <<healthVars, serverVars, charged, apiVars, queue, nextId, poisoned, chosen, attempts,
                   persist, ack, ledger>>

\* queue.read returned None.
read_none(w) ==
    /\ pc[w] = "read"
    /\ Visible = {}
    /\ Goto(w, after_read("none"))
    /\ UNCHANGED <<healthVars, serverVars, charged, apiVars, queueVars, cur, chosen, attempts,
                   persist, ack, cause, ledger>>

\* queue.read returned Err (the database is unreachable).
read_error(w) ==
    /\ pc[w] = "read"
    /\ cause' = [cause EXCEPT ![w] = "read"]
    /\ Goto(w, after_read("err"))
    /\ UNCHANGED <<healthVars, serverVars, charged, apiVars, queueVars, cur, chosen, attempts,
                   persist, ack, ledger>>

\* The loop body is over: the next iteration starts with nothing kept of the
\* delivery.
loop(w) ==
    /\ pc[w] = "done"
    /\ cur' = [cur EXCEPT ![w] = NoMsg]
    /\ chosen' = [chosen EXCEPT ![w] = "none"]
    /\ attempts' = [attempts EXCEPT ![w] = <<>>]
    /\ persist' = [persist EXCEPT ![w] = "none"]
    /\ ack' = [ack EXCEPT ![w] = "none"]
    /\ charged' = Settle(charged, queue, cur')
    /\ Goto(w, "read")
    /\ UNCHANGED <<healthVars, serverVars, apiVars, queueVars, cause, ledger>>

(***************************************************************************)
(* PaymentProcessor::process_payment, whole: choose_processor, the call to *)
(* the chosen processor and, when that fails, the call to the other one.   *)
(*   h       the health cache choose_processor reads after its two         *)
(*           update_health_if_needed calls: any pair of is_healthy flags,  *)
(*           as the probes answer as the processors please;                *)
(*   o1, o2  how the first and the second processor call end ("none": not  *)
(*           made).                                                        *)
(* failure_count is written and never read; it is left out.                *)
(***************************************************************************)
HealthCaches == [Procs -> [is_healthy : BOOLEAN]]

\* How process_payment_with_processor ends: "ok" is a 2xx (Ok); "err" is a
\* non-2xx status, a network error or the 30 s timeout (Err).
Outcomes == {"ok", "err"}

Attempt(p, o) == [proc |-> p, ok |-> o = "ok"]

\* Mutant: the second call goes to the processor that has just failed.
process_payment_calls_same(first, o1, o2) ==
    IF o1 = "ok"
    THEN <<Attempt(first, o1)>>
    ELSE <<Attempt(first, o1), Attempt(first, o2)>>

\* The processor calls process_payment makes, in order.
process_payment_calls(first, o1, o2) ==
    IF o1 = "ok"
    THEN <<Attempt(first, o1)>>
    ELSE <<Attempt(first, o1), Attempt(other_processor(first), o2)>>

\* Mutant: the PaymentRequest is stamped with the time of the dispatch.
PaymentRequests_stamped_now(m, calls) ==
    [i \in 1..Len(calls) |->
       [proc |-> calls[i].proc, ok |-> calls[i].ok,
        requested_at |-> to_rfc3339(clock)]]

\* process_payment_with_processor: every call carries a PaymentRequest made
\* from the message, with requested_at: message.requested_at.to_rfc3339().
PaymentRequests(m, calls) ==
    [i \in 1..Len(calls) |->
       [proc |-> calls[i].proc, ok |-> calls[i].ok,
        requested_at |-> to_rfc3339(m.at)]]

\* The calls of a sequence of attempts that the processor answered with 2xx.
Count2xx(calls) == Cardinality({i \in 1..Len(calls) : calls[i].ok})

process_payment(w, h, o1, o2) ==
    /\ pc[w] = "process"
    /\ chosen' = [chosen EXCEPT ![w] = choose_processor(h)]
    /\ attempts' = [attempts EXCEPT ![w] =
                      PaymentRequests(cur[w],
                         process_payment_calls(choose_processor(h), o1, o2))]
    /\ charged' = [charged EXCEPT ![cur[w].id] =
                     @ + Count2xx(process_payment_calls(choose_processor(h), o1, o2))]
    /\ Goto(w, after_process(IF o1 = "ok" \/ o2 = "ok" THEN "ok" ELSE "err"))
    /\ UNCHANGED <<healthVars, serverVars, apiVars, queueVars, cur, persist, ack, cause, ledger>>

(***************************************************************************)
(* PaymentWorker::save_processed_payment and queue.archive.                *)
(***************************************************************************)
\* The INSERT was executed: a new row, or none on a conflict.
save_ok(w) ==
    /\ pc[w] = "save"
    /\ ledger' = save_processed_payment(ledger, cur[w], used_processor(w))
    /\ persist' = [persist EXCEPT ![w] =
                     IF \E r \in ledger : r.cid = cur[w].cid THEN "conflict"
                     ELSE "inserted"]
    /\ Goto(w, after_save("ok"))
    /\ UNCHANGED <<healthVars, serverVars, charged, apiVars, queueVars, cur, chosen, attempts, ack,
                   cause>>

\* The INSERT failed with another error, which is printed.
save_err(w) ==
    /\ pc[w] = "save"
    /\ persist' = [persist EXCEPT ![w] = "error"]
    /\ Goto(w, after_save("err"))
    /\ UNCHANGED <<healthVars, serverVars, charged, apiVars, queueVars, cur, chosen, attempts, ack,
                   cause, ledger>>

\* queue.archive returned Ok: the message has left the queue.
archive_ok(w) ==
    /\ pc[w] = "archive"
    /\ queue' = {m \in queue : m.id # cur[w].id}
    /\ invisible' = invisible \ {cur[w].id}
    /\ ack' = [ack EXCEPT ![w] = "ok"]
    /\ charged' = Settle(charged, queue', cur)
    /\ Goto(w, after_archive("ok"))
    /\ UNCHANGED <<healthVars, serverVars, apiVars, nextId, poisoned, cur, chosen, attempts,
                   persist, cause, ledger>>

\* queue.archive returned Err, and the ? returns it from process_payments.
archive_err(w) ==
    /\ pc[w] = "archive"
    /\ ack' = [ack EXCEPT ![w] = "error"]
    /\ cause' = [cause EXCEPT ![w] = "archive"]
    /\ cur' = [cur EXCEPT ![w] = NoMsg]
    /\ chosen' = [chosen EXCEPT ![w] = "none"]
    /\ attempts' = [attempts EXCEPT ![w] = <<>>]
    /\ persist' = [persist EXCEPT ![w] = "none"]
    /\ charged' = Settle(charged, queue, cur')
    /\ Goto(w, after_archive("err"))
    /\ UNCHANGED <<healthVars, serverVars, apiVars, queueVars, ledger>>

(***************************************************************************)
(* The pipeline: api, queue, workers, processors and table.                *)
(***************************************************************************)
Next ==
    \/ \E c \in NextCids, a \in Amounts : create_payment(c, a)
    \/ \E r \in Reqs : send_message_ok(r)
    \/ \E r \in Reqs : send_message_err(r)
    \/ foreign_send
    \/ \E i \in 1..MaxMsg : visibility_timeout(i)
    \/ \E w \in Workers : read_message(w)
    \/ \E w \in Workers : read_unparseable(w)
    \/ \E w \in Workers : read_none(w)
    \/ \E w \in Workers : read_error(w)
    \/ \E w \in Workers : loop(w)
    \/ \E w \in Workers, h \in HealthCaches, o1 \in Outcomes :
          \E o2 \in IF o1 = "ok" THEN {"none"} ELSE Outcomes :
             process_payment(w, h, o1, o2)
    \/ \E w \in Workers : save_ok(w)
    \/ \E w \in Workers : save_err(w)
    \/ \E w \in Workers : archive_ok(w)
    \/ \E w \in Workers : archive_err(w)

Spec == Init /\ [][Next]_vars

TypeOK ==
    /\ Len(responses) + poisoned <= MaxMsg
    /\ \A m \in queue : m.id < nextId
    /\ invisible \subseteq Ids(queue)
    /\ \A w \in Workers : Len(attempts[w]) <= 2

(***************************************************************************)
(* The pipeline with a helpful environment, for liveness: the broker and   *)
(* the database answer every call, every payload is a PaymentMessage, a    *)
(* processor may fail any call but not for ever.  Tokio schedules every    *)
(* task that can run, and a visibility timeout that runs does end.         *)
(***************************************************************************)
process_payment_ok(w) ==
    \E h \in HealthCaches, o1 \in Outcomes :
       \E o2 \in IF o1 = "ok" THEN {"none"} ELSE Outcomes :
          /\ o1 = "ok" \/ o2 = "ok"
          /\ process_payment(w, h, o1, o2)

LiveNext ==
    \/ \E c \in NextCids, a \in Amounts : create_payment(c, a)
    \/ \E r \in Reqs : send_message_ok(r)
    \/ \E i \in 1..MaxMsg : visibility_timeout(i)
    \/ \E w \in Workers : read_message(w)
    \/ \E w \in Workers : read_none(w)
    \/ \E w \in Workers : loop(w)
    \/ \E w \in Workers, h \in HealthCaches, o1 \in Outcomes :
          \E o2 \in IF o1 = "ok" THEN {"none"} ELSE Outcomes :
             process_payment(w, h, o1, o2)
    \/ \E w \in Workers : save_ok(w)
    \/ \E w \in Workers : archive_ok(w)

LiveSpec ==
    /\ Init
    /\ [][LiveNext]_vars
    /\ \A r \in Reqs : WF_vars(send_message_ok(r))
    /\ \A i \in 1..MaxMsg : WF_vars(visibility_timeout(i))
    /\ \A w \in Workers :
         /\ WF_vars(read_message(w))
         /\ WF_vars(loop(w))
         /\ WF_vars(\E h \in HealthCaches, o1 \in Outcomes :
                      \E o2 \in IF o1 = "ok" THEN {"none"} ELSE Outcomes :
                         process_payment(w, h, o1, o2))
         /\ SF_vars(process_payment_ok(w))
         /\ WF_vars(save_ok(w))
         /\ WF_vars(archive_ok(w))

(***************************************************************************)
(* src/main.rs: the single-binary server.  POST /payments is handled by    *)
(* process_payment, which calls the processor itself and records the       *)
(* payment in memory.  Positions of a handler: send (awaiting the chosen   *)
(* processor), fallback (awaiting the fallback processor), 200, 500.       *)
(***************************************************************************)
\* choose_best_processor, from the two is_processor_healthy answers.
choose_best_processor(default_healthy, fallback_healthy) ==
    IF default_healthy THEN "default"
    ELSE IF fallback_healthy THEN "fallback"
    ELSE "default"

\* PaymentRecord { correlation_id, amount, requested_at, processor_used }
PaymentRecord(req, processor_name) ==
    [correlation_id |-> req.cid, amount |-> req.amount,
     requested_at |-> req.at, processor_used |-> processor_name]

\* DashMap::insert: the value of the key is replaced.
insert(storage, record) ==
    [storage EXCEPT ![record.correlation_id] = record]

\* ProcessorStats::add_payment: one more request, amount * 100 more cents.
add_payment(st, p, amount) ==
    [st EXCEPT ![p] = [total_requests |-> @.total_requests + 1,
                       total_amount |-> @.total_amount + amount * 100]]

SetPc(r, to) == requests' = [requests EXCEPT ![r].pc = to]

\* get_payments_summary of the server: the all-time counters, whatever the
\* window of the query (_query is not read); total_amount is cents / 100.
server_payments_summary(st, from, to) ==
    [p \in Procs |-> [total_requests |-> st[p].total_requests,
                      total_amount |-> st[p].total_amount \div 100]]

\* A request arrives: requested_at = Utc::now(), choose_best_processor.  The
\* two is_processor_healthy answers are what the probes and the cache give.
handle_payment(c, a, default_healthy, fallback_healthy) ==
    /\ Len(requests) < MaxReq
    /\ requests' = Append(requests,
          [cid |-> c, amount |-> a, at |-> clock,
           url |-> choose_best_processor(default_healthy, fallback_healthy),
           pc |-> "send"])
    /\ clock' = clock + 1
    /\ UNCHANGED <<healthVars, pipelineVars, payments_storage, stats>>

\* send_payment_request to the chosen processor returned Ok.
send_payment_request_ok(r) ==
    /\ r \in 1..Len(requests)
    /\ requests[r].pc = "send"
    /\ payments_storage' = insert(payments_storage,
                                  PaymentRecord(requests[r], requests[r].url))
    /\ stats' = add_payment(stats, requests[r].url, requests[r].amount)
    /\ SetPc(r, "200")
    /\ UNCHANGED <<healthVars, pipelineVars, clock>>

\* send_payment_request to the chosen processor returned Err: "Try fallback if
\* default failed", else 500.
send_payment_request_err(r) ==
    /\ r \in 1..Len(requests)
    /\ requests[r].pc = "send"
    /\ SetPc(r, IF requests[r].url = "default" THEN "fallback" ELSE "500")
    /\ UNCHANGED <<healthVars, pipelineVars, clock, payments_storage, stats>>

\* The request to the fallback processor returned Ok.
fallback_request_ok(r) ==
    /\ r \in 1..Len(requests)
    /\ requests[r].pc = "fallback"
    /\ payments_storage' = insert(payments_storage,
                                  PaymentRecord(requests[r], "fallback"))
    /\ stats' = add_payment(stats, "fallback", requests[r].amount)
    /\ SetPc(r, "200")
    /\ UNCHANGED <<healthVars, pipelineVars, clock>>

\* The request to the fallback processor returned Err.
fallback_request_err(r) ==
    /\ r \in 1..Len(requests)
    /\ requests[r].pc = "fallback"
    /\ SetPc(r, "500")
    /\ UNCHANGED <<healthVars, pipelineVars, clock, payments_storage, stats>>

ServerNext ==
    \/ \E c \in CidSet, a \in Amounts, dh \in BOOLEAN, fh \in BOOLEAN :
          handle_payment(c, a, dh, fh)
    \/ \E r \in 1..MaxReq : send_payment_request_ok(r)
    \/ \E r \in 1..MaxReq : send_payment_request_err(r)
    \/ \E r \in 1..MaxReq : fallback_request_ok(r)
    \/ \E r \in 1..MaxReq : fallback_request_err(r)

SpecMono == Init /\ [][ServerNext]_vars

(***************************************************************************)
(* health-checker/src/health_monitor.rs: HealthMonitor::get_best_processor *)
(* over the two verdicts read from the store, and the selections the       *)
(* payment worker and the single-binary server make for the same verdicts. *)
(***************************************************************************)
\* Mutant: with both verdicts failing, default is returned unconditionally.
both_present_ignoring_time(d, f, build) ==
    IF ~d.failing /\ ~f.failing
    THEN IF build = "debug" /\ f.min_response_time * 2 >= Wrap THEN "panic"
         ELSE IF (f.min_response_time * 2) % Wrap < d.min_response_time
              THEN "fallback" ELSE "default"
    ELSE IF ~d.failing THEN "default"
    ELSE IF ~f.failing THEN "fallback"
    ELSE "default"

\* (Some(default), Some(fallback)).  fallback.min_response_time * 2 is a u64
\* product: it panics on overflow in a debug build and wraps in a release build.
both_present(d, f, build) ==
    IF ~d.failing /\ ~f.failing
    THEN IF build = "debug" /\ f.min_response_time * 2 >= Wrap THEN "panic"
         ELSE IF (f.min_response_time * 2) % Wrap < d.min_response_time
              THEN "fallback" ELSE "default"
    ELSE IF ~d.failing THEN "default"
    ELSE IF ~f.failing THEN "fallback"
    ELSE IF f.min_response_time < d.min_response_time THEN "fallback"
    ELSE "default"

\* Mutant: a single verdict is followed whether it is healthy or not.
one_present_always(v, this, other) == this

\* (Some(default), None) and (None, Some(fallback)): this is the processor
\* that has the verdict v.
one_present(v, this, other) == IF ~v.failing THEN this ELSE other

get_best_processor(h, build) ==
    LET d == h["default"]
        f == h["fallback"]
    IN  CASE d.present /\ f.present -> both_present(d, f, build)
          [] d.present /\ ~f.present -> one_present(d, "default", "fallback")
          [] ~d.present /\ f.present -> one_present(f, "fallback", "default")
          [] OTHER -> "default"

\* The worker's cache entry for a processor whose probe gave the verdict v:
\* is_healthy = !failing, and is_healthy: true (ProcessorHealth::default)
\* before any probe.
ProcessorHealth(v) == [is_healthy |-> IF v.present THEN ~v.failing ELSE TRUE]

\* The server's is_processor_healthy for a processor whose probe gave the
\* verdict v: !health.failing, and true (unwrap_or(true)) without a cache entry.
is_healthy_for(v) == IF v.present THEN ~v.failing ELSE TRUE

\* HealthStorage::set_processor_health: SETEX health:{name}.
set_processor_health(store, p, v) == [store EXCEPT ![p] = v]

\* No selection has been made for the verdicts now in the store.
Unselected ==
    /\ best' = "none"
    /\ picked' = "none"
    /\ server_picked' = "none"

\* A verdict is written to the store.
store_verdict(p, v) ==
    /\ health' = set_processor_health(health, p, v)
    /\ Unselected
    /\ UNCHANGED <<pipelineVars, serverVars, extVars, leaseVars, chooseVars, health_set_at, cacheVars, clock, timeVars, oracleVars>>

\* The key health:{name} expires (health_status_ttl).
verdict_expires(p) ==
    /\ health[p].present
    /\ health' = [health EXCEPT ![p] = NoVerdict]
    /\ Unselected
    /\ UNCHANGED <<pipelineVars, serverVars, extVars, leaseVars, chooseVars, health_set_at, cacheVars, clock, timeVars, oracleVars>>

\* The three selections are made for the verdicts in the store.
select(build) ==
    /\ best' = get_best_processor(health, build)
    /\ picked' = choose_processor([p \in Procs |-> ProcessorHealth(health[p])])
    /\ server_picked' = choose_best_processor(is_healthy_for(health["default"]),
                                              is_healthy_for(health["fallback"]))
    /\ UNCHANGED <<pipelineVars, serverVars, extVars, leaseVars, chooseVars, health_set_at, cacheVars, clock, health, timeVars, oracleVars>>

SelectNext ==
    \/ \E p \in Procs, v \in Verdicts : store_verdict(p, v)
    \/ \E p \in Procs : verdict_expires(p)
    \/ \E build \in Builds : select(build)

SpecSelect == Init /\ [][SelectNext]_vars

(***************************************************************************)
(* health-checker: main's loop over monitor_all_processors, which calls   *)
(* check_processor_health for default and then for fallback.  The store is *)
(* Redis (RedisHealthStorage), the HTTP client is ReqwestHttpClient.       *)
(* Time passes at every await.  The sleeps between the calls are not       *)
(* modelled: a call may start at any time after the one before it ended.   *)
(***************************************************************************)
\* Mutant: the token is never found.
rate_limit_always_open(tok, p, t) == TRUE

\* RedisHealthStorage::check_rate_limit: Ok(!exists).  A key set with SETEX
\* exists until its time to live is over.
check_rate_limit(tok, p, t) == ~(t < tok[p])

\* RedisHealthStorage::set_rate_limit: SETEX rate_limit:{name} "1" rate_limit_ttl.
set_rate_limit(tok, p, t) == [tok EXCEPT ![p] = t + rate_limit_ttl]

\* Mutant: the probe is sent without the token being written first.
after_check_skipping_set(outcome) ==
    CASE outcome = "open" -> "get"
      [] outcome = "closed" -> "return_ok"
      [] OTHER -> "return_err"

\* Mutant: the token is looked up and the probe made whatever the answer.
after_check_never_closed(outcome) ==
    CASE outcome = "open" -> "set"
      [] outcome = "closed" -> "set"
      [] OTHER -> "return_err"

\* if !self.storage.check_rate_limit(..).await? { return Ok(()); }
after_check_rate_limit(outcome) ==
    CASE outcome = "open" -> "set"
      [] outcome = "closed" -> "return_ok"
      [] OTHER -> "return_err"              \* Err: the ? returns it

\* self.storage.set_rate_limit(..).await?; then self.http_client.get(..)
after_set_rate_limit(outcome) ==
    IF outcome = "ok" THEN "get" ELSE "return_err"

\* monitor_all_processors: default, then fallback unless default's call
\* returned Err (the ? ends the cycle); the next cycle starts with default.
next_processor(p, result) ==
    IF p = "default" /\ result = "Ok" THEN "fallback" ELSE "default"

\* check_processor_health returns.
Return(result, at) ==
    /\ ret' = [result |-> result, at |-> at]
    /\ rpc' = "check"
    /\ rproc' = next_processor(rproc, result)

\* check_processor_health goes on to `to`, or returns.
Step(to, at) ==
    CASE to = "return_ok" -> Return("Ok", at)
      [] to = "return_err" -> Return("Err", at)
      [] OTHER -> rpc' = to /\ UNCHANGED <<rproc, ret>>

\* What a processor may answer to GET /payments/service-health.  The body is
\* a JSON object {failing, minResponseTime} (health_object), a JSON string
\* whose text is such an object (health_string), another JSON string
\* (other_string), or no JSON at all (not_json).  Of the non-2xx statuses 429
\* stands for all: the others differ from it only in the line printed.
Bodies ==
    [kind : {"health_object", "health_string"}, failing : BOOLEAN,
     min_response_time : {2}]
    \cup [kind : {"other_string", "not_json"}, failing : {FALSE},
          min_response_time : {0}]

RawExchanges ==
    {[net |-> "error", status |-> 0, body |-> NoBody]}
    \cup [net : {"ok"}, status : {200, 429}, body : Bodies]

\* ReqwestHttpClient::get: send().await?, then body = response.json().await?
\* with body: String: a body that is not a JSON string is an Err, whatever
\* the status.
ReqwestHttpClient_get(raw) ==
    IF raw.net = "error" THEN [ok |-> FALSE, is_success |-> FALSE,
                               status_code |-> 0, body |-> NoBody]
    ELSE IF raw.body.kind \in {"health_string", "other_string"}
         THEN [ok |-> TRUE, is_success |-> raw.status \in 200..299,
               status_code |-> raw.status, body |-> raw.body]
         ELSE [ok |-> FALSE, is_success |-> FALSE, status_code |-> 0,
               body |-> NoBody]

\* response.json::<ServiceHealthResponse>() is Ok.
json_is_ok(body) == body.kind = "health_string"

\* Mutant: the write of the failing verdict is made with ? as well.
handle_response_propagating(resp) ==
    LET failed == ProcessorHealthStatus(TRUE, failed_response_time_value)
    IN  IF ~resp.ok
        THEN [write |-> TRUE, verdict |-> failed, propagate |-> TRUE]
        ELSE IF resp.is_success
        THEN IF json_is_ok(resp.body)
             THEN [write |-> TRUE, propagate |-> TRUE,
                   verdict |-> ProcessorHealthStatus(resp.body.failing,
                                                     resp.body.min_response_time)]
             ELSE [write |-> TRUE, verdict |-> failed, propagate |-> TRUE]
        ELSE [write |-> FALSE, verdict |-> NoVerdict, propagate |-> FALSE]

\* What check_processor_health does with the result of http_client.get:
\*   write      it calls set_processor_health
\*   verdict    with this verdict
\*   propagate  an Err of that call is returned with ? (else it is printed)
handle_response(resp) ==
    LET failed == ProcessorHealthStatus(TRUE, failed_response_time_value)
    IN  IF ~resp.ok
        THEN [write |-> TRUE, verdict |-> failed, propagate |-> FALSE]
        ELSE IF resp.is_success
        THEN IF json_is_ok(resp.body)
             THEN [write |-> TRUE, propagate |-> TRUE,
                   verdict |-> ProcessorHealthStatus(resp.body.failing,
                                                     resp.body.min_response_time)]
             ELSE [write |-> TRUE, verdict |-> failed, propagate |-> FALSE]
        ELSE [write |-> FALSE, verdict |-> NoVerdict, propagate |-> FALSE]

\* Time passes.
tick ==
    /\ now < MaxTime
    /\ now' = now + 1
    /\ UNCHANGED <<pipelineVars, serverVars, extVars, leaseVars, chooseVars, health_set_at, cacheVars, clock, health, selectVars,
                   last_probe, oracleVars>>

\* check_rate_limit returned Ok(true): no token.
check_rate_limit_open ==
    /\ rpc = "check"
    /\ check_rate_limit(token, rproc, now)
    /\ exchange' = NoExchange
    /\ Step(after_check_rate_limit("open"), "check_rate_limit")
    /\ UNCHANGED <<pipelineVars, serverVars, extVars, leaseVars, chooseVars, health_set_at, cacheVars, clock, health, selectVars,
                   timeVars, token>>

\* check_rate_limit returned Ok(false): the token is there.
check_rate_limit_closed ==
    /\ rpc = "check"
    /\ ~check_rate_limit(token, rproc, now)
    /\ exchange' = NoExchange
    /\ Step(after_check_rate_limit("closed"), "check_rate_limit")
    /\ UNCHANGED <<pipelineVars, serverVars, extVars, leaseVars, chooseVars, health_set_at, cacheVars, clock, health, selectVars,
                   timeVars, token>>

\* check_rate_limit returned Err (Redis is unreachable).
check_rate_limit_err ==
    /\ rpc = "check"
    /\ exchange' = NoExchange
    /\ Step(after_check_rate_limit("err"), "check_rate_limit")
    /\ UNCHANGED <<pipelineVars, serverVars, extVars, leaseVars, chooseVars, health_set_at, cacheVars, clock, health, selectVars,
                   timeVars, token>>

\* set_rate_limit returned Ok: the token is written.
set_rate_limit_ok ==
    /\ rpc = "set"
    /\ token' = set_rate_limit(token, rproc, now)
    /\ Step(after_set_rate_limit("ok"), "set_rate_limit")
    /\ UNCHANGED <<pipelineVars, serverVars, extVars, leaseVars, chooseVars, health_set_at, cacheVars, clock, health, selectVars,
                   timeVars, exchange>>

\* set_rate_limit returned Err.
set_rate_limit_err ==
    /\ rpc = "set"
    /\ Step(after_set_rate_limit("err"), "set_rate_limit")
    /\ UNCHANGED <<pipelineVars, serverVars, extVars, leaseVars, chooseVars, health_set_at, cacheVars, clock, health, selectVars,
                   timeVars, token, exchange>>

\* A probe to p is sent at time t.
Probed(lp, p, t) == [lp EXCEPT ![p] = [prev |-> @.last, last |-> t]]

\* self.http_client.get(&url): the request is sent.
http_get_send ==
    /\ rpc = "get"
    /\ last_probe' = Probed(last_probe, rproc, now)
    /\ rpc' = "wait"
    /\ UNCHANGED <<pipelineVars, serverVars, extVars, leaseVars, chooseVars, health_set_at, cacheVars, clock, health, selectVars,
                   now, token, rproc, ret, exchange>>

\* http_client.get returns and check_processor_health handles the result to
\* its end; st is how set_processor_health ends if it is called.
http_get_return(raw, st) ==
    LET h == handle_response(ReqwestHttpClient_get(raw))
    IN  /\ rpc = "wait"
        /\ health' = IF h.write /\ st = "ok"
                     THEN set_processor_health(health, rproc, h.verdict)
                     ELSE health
        /\ exchange' = [net |-> raw.net, status |-> raw.status,
                        body |-> raw.body,
                        stored |-> IF h.write THEN st ELSE "none"]
        /\ IF h.write /\ h.propagate /\ st = "err"
           THEN Return("Err", "set_processor_health")
           ELSE Return("Ok", "response")
        /\ IF h.write /\ st = "ok" THEN Unselected ELSE UNCHANGED selectVars
        /\ UNCHANGED <<pipelineVars, serverVars, extVars, leaseVars, chooseVars,
                       health_set_at, cacheVars, clock, timeVars, token>>

OracleNext ==
    \/ tick
    \/ check_rate_limit_open
    \/ check_rate_limit_closed
    \/ check_rate_limit_err
    \/ set_rate_limit_ok
    \/ set_rate_limit_err
    \/ http_get_send
    \/ \E raw \in RawExchanges, st \in {"ok", "err"} : http_get_return(raw, st)

SpecOracle == Init /\ [][OracleNext]_vars

\* The refresher together with a caller of get_best_processor, which reads
\* the verdicts the refresher has stored.
MonitorNext ==
    \/ OracleNext
    \/ \E build \in Builds : select(build)

SpecMonitor == Init /\ [][MonitorNext]_vars

(***************************************************************************)
(* src/main.rs: is_processor_healthy, called by the POST /payments         *)
(* handlers through choose_best_processor.  The handlers run concurrently  *)
(* (axum::serve); health_cache and last_health_check are DashMaps shared   *)
(* through AppState, and no lock is held across the await of send.         *)
(***************************************************************************)
\* health_cache has an entry for p younger than cache_ttl at time t.
cache_fresh(cache, p, t) ==
    cache[p].present /\ t - cache[p].cached_at < cache_ttl

\* last_health_check has an entry for p younger than min_check_interval.
check_limited(lhc, p, t) ==
    lhc[p] # NoTime /\ t - lhc[p] < min_check_interval

\* What is returned without a probe: the cached verdict, or healthy if there
\* is none (unwrap_or(true)).
cached_answer(cache, p) ==
    IF cache[p].present THEN ~cache[p].failing ELSE TRUE

\* How the probe may end: a HealthStatus was parsed, send returned Err, or
\* the body could not be parsed.
HealthOutcomes ==
    [kind : {"health"}, failing : BOOLEAN]
    \cup [kind : {"error", "unparseable"}, failing : {FALSE}]

\* Time passes; send returns Err once probe_timeout is over.
elapse ==
    /\ \A c \in Callers : hpc[c] = "wait" => now - hnow[c] < probe_timeout
    /\ tick

\* is_processor_healthy returns from one of its two early returns.
is_processor_healthy_cached(c, p) ==
    /\ hpc[c] = "idle"
    /\ cache_fresh(health_cache, p, now) \/ check_limited(last_health_check, p, now)
    /\ hret' = [hret EXCEPT ![c] = cached_answer(health_cache, p)]
    /\ UNCHANGED <<pipelineVars, serverVars, extVars, leaseVars, chooseVars, health_set_at, clock, health, selectVars,
                   timeVars, oracleVars, health_cache, last_health_check,
                   hpc, hproc, hnow>>

\* is_processor_healthy passes both checks and sends the probe.
is_processor_healthy_send(c, p) ==
    /\ hpc[c] = "idle"
    /\ ~cache_fresh(health_cache, p, now)
    /\ ~check_limited(last_health_check, p, now)
    /\ hpc' = [hpc EXCEPT ![c] = "wait"]
    /\ hproc' = [hproc EXCEPT ![c] = p]
    /\ hnow' = [hnow EXCEPT ![c] = now]
    /\ last_probe' = Probed(last_probe, p, now)
    /\ UNCHANGED <<pipelineVars, serverVars, extVars, leaseVars, chooseVars, health_set_at, clock, health, selectVars, now,
                   oracleVars, health_cache, last_health_check, hret>>

\* The probe ends and is_processor_healthy returns: only a parsed HealthStatus
\* is recorded, with the `now` taken at the call's entry.  The call's locals
\* are gone with it.
is_processor_healthy_return(c, o) ==
    /\ hpc[c] = "wait"
    /\ hpc' = [hpc EXCEPT ![c] = "idle"]
    /\ IF o.kind = "health"
       THEN /\ health_cache' = [health_cache EXCEPT ![hproc[c]] =
                   [present |-> TRUE, failing |-> o.failing, cached_at |-> hnow[c]]]
            /\ last_health_check' = [last_health_check EXCEPT ![hproc[c]] = hnow[c]]
            /\ hret' = [hret EXCEPT ![c] = ~o.failing]
       ELSE /\ UNCHANGED <<health_cache, last_health_check>>
            /\ hret' = [hret EXCEPT ![c] = FALSE]
    /\ hproc' = [hproc EXCEPT ![c] = "default"]
    /\ hnow' = [hnow EXCEPT ![c] = 0]
    /\ UNCHANGED <<pipelineVars, serverVars, extVars, leaseVars, chooseVars, health_set_at, clock, health, selectVars,
                   timeVars, oracleVars>>

CacheNext ==
    \/ elapse
    \/ \E c \in Callers, p \in Procs : is_processor_healthy_cached(c, p)
    \/ \E c \in Callers, p \in Procs : is_processor_healthy_send(c, p)
    \/ \E c \in Callers, o \in HealthOutcomes : is_processor_healthy_return(c, o)

SpecCache == Init /\ [][CacheNext]_vars

(***************************************************************************)
(* health-checker: the key health:{name} in Redis over time.               *)
(* RedisHealthStorage::set_processor_health writes it with SETEX and        *)
(* health_status_ttl; get_processor_health reads it with GET, which finds   *)
(* nothing once the time to live is over.  (In SpecOracle and SpecSelect    *)
(* the clock stays below health_status_ttl, and the expiry is an action of  *)
(* its own or does not happen.)                                             *)
(***************************************************************************)
\* Mutant: the key is written with SET, without a time to live.
key_never_expired(set_at, t) == FALSE

\* A key written with SETEX at set_at is gone at time t.
key_expired(set_at, t) == set_at # NoTime /\ t - set_at >= health_status_ttl

\* What the probes of SpecStore store.
StoreVerdicts == {ProcessorHealthStatus(f, 1) : f \in BOOLEAN}

\* Time passes; Redis drops the keys whose time to live is over.
store_tick ==
    /\ now < MaxStoreTime
    /\ now' = now + 1
    /\ health' = [p \in Procs |->
                    IF key_expired(health_set_at[p], now + 1)
                    THEN NoVerdict ELSE health[p]]
    /\ Unselected
    /\ UNCHANGED <<pipelineVars, serverVars, extVars, leaseVars, chooseVars, cacheVars, clock, last_probe,
                   oracleVars, health_set_at>>

\* set_processor_health(p, v) returns Ok at the time `now`.
store_set_processor_health(p, v) ==
    /\ health' = set_processor_health(health, p, v)
    /\ health_set_at' = [health_set_at EXCEPT ![p] = now]
    /\ Unselected
    /\ UNCHANGED <<pipelineVars, serverVars, extVars, leaseVars, chooseVars, cacheVars, clock, timeVars,
                   oracleVars>>

StoreNext ==
    \/ store_tick
    \/ \E p \in Procs, v \in StoreVerdicts : store_set_processor_health(p, v)
    \/ \E build \in Builds : select(build)

SpecStore == Init /\ [][StoreNext]_vars

(***************************************************************************)
(* payment-worker: what one worker does between reading a message and the  *)
(* end of process_payment: choose_processor with its two calls of          *)
(* update_health_if_needed, then the processor calls.  A worker process    *)
(* runs one task; health_cache is an Arc<RwLock<..>>.  The timeouts of the  *)
(* requests are not modelled.                                              *)
(***************************************************************************)
\* health.last_checked.elapsed() >= Duration::from_secs(5)
check_due(cache, p, t) == t - cache[p].last_checked >= worker_check_interval

\* How check_health may end: Ok(HealthResponse) or Err (status, body, network).
CheckOutcomes == [ok : {TRUE}, failing : BOOLEAN] \cup [ok : {FALSE}, failing : {FALSE}]

\* update_health_if_needed has returned for p: the next call, or the choice.
after_update(p) ==
    IF p = "default"
    THEN wpc' = "update" /\ wproc' = "fallback"
    ELSE wpc' = "choose" /\ wproc' = "default"

\* queue.read returned a message: process_payment starts.
message_received ==
    /\ wpc = "read"
    /\ wpc' = "update"
    /\ wproc' = "default"
    /\ wpick' = "none"
    /\ select_requests' = 0
    /\ UNCHANGED <<pipelineVars, serverVars, extVars, leaseVars, health_set_at, cacheVars, clock,
                   health, selectVars, timeVars, oracleVars, worker_cache,
                   cache_lock>>

\* update_health_if_needed(p): the entry is younger than 5 seconds; the write
\* lock is taken and dropped without an await in between.
update_health_not_needed ==
    /\ wpc = "update"
    /\ cache_lock = "free"
    /\ ~check_due(worker_cache, wproc, now)
    /\ after_update(wproc)
    /\ UNCHANGED <<pipelineVars, serverVars, extVars, leaseVars, health_set_at, cacheVars, clock,
                   health, selectVars, timeVars, oracleVars, worker_cache,
                   cache_lock, wpick, select_requests>>

\* update_health_if_needed(p): the write lock is taken and check_health sends
\* GET /payments/service-health.
check_health_send ==
    /\ wpc = "update"
    /\ cache_lock = "free"
    /\ check_due(worker_cache, wproc, now)
    /\ cache_lock' = "write"
    /\ wpc' = "probe"
    /\ last_probe' = Probed(last_probe, wproc, now)
    /\ select_requests' = select_requests + 1
    /\ UNCHANGED <<pipelineVars, serverVars, extVars, leaseVars, health_set_at, cacheVars, clock,
                   health, selectVars, now, oracleVars, worker_cache, wproc,
                   wpick>>

\* check_health returns; the entry is updated and the write lock dropped.
check_health_return(o) ==
    /\ wpc = "probe"
    /\ worker_cache' = [worker_cache EXCEPT ![wproc] =
                          [is_healthy |-> o.ok /\ ~o.failing,
                           last_checked |-> now]]
    /\ cache_lock' = "free"
    /\ after_update(wproc)
    /\ UNCHANGED <<pipelineVars, serverVars, extVars, leaseVars, health_set_at, cacheVars, clock,
                   health, selectVars, timeVars, oracleVars, wpick,
                   select_requests>>

\* choose_processor reads the cache under the read lock, returns, and
\* process_payment_with_processor sends the POST to the chosen processor.
choose_and_post ==
    /\ wpc = "choose"
    /\ cache_lock = "free"
    /\ wpick' = choose_processor(worker_cache)
    /\ wpc' = "post"
    /\ UNCHANGED <<pipelineVars, serverVars, extVars, leaseVars, health_set_at, cacheVars, clock,
                   health, selectVars, timeVars, oracleVars, worker_cache,
                   cache_lock, wproc, select_requests>>

\* The first POST returns Ok: process_payment returns.
post_ok ==
    /\ wpc = "post"
    /\ wpc' = "read"
    /\ UNCHANGED <<pipelineVars, serverVars, extVars, leaseVars, health_set_at, cacheVars, clock,
                   health, selectVars, timeVars, oracleVars, worker_cache,
                   cache_lock, wproc, wpick, select_requests>>

\* The first POST returns Err: failure_count is raised under the write lock,
\* the lock is dropped, and the POST to the other processor is sent.
post_err ==
    /\ wpc = "post"
    /\ cache_lock = "free"
    /\ wpc' = "post2"
    /\ UNCHANGED <<pipelineVars, serverVars, extVars, leaseVars, health_set_at, cacheVars, clock,
                   health, selectVars, timeVars, oracleVars, worker_cache,
                   cache_lock, wproc, wpick, select_requests>>

\* The second POST returns: process_payment returns.
post2_return ==
    /\ wpc = "post2"
    /\ wpc' = "read"
    /\ UNCHANGED <<pipelineVars, serverVars, extVars, leaseVars, health_set_at, cacheVars, clock,
                   health, selectVars, timeVars, oracleVars, worker_cache,
                   cache_lock, wproc, wpick, select_requests>>

ChooseNext ==
    \/ tick
    \/ message_received
    \/ update_health_not_needed
    \/ check_health_send
    \/ \E o \in CheckOutcomes : check_health_return(o)
    \/ choose_and_post
    \/ post_ok
    \/ post_err
    \/ post2_return

SpecChoose == Init /\ [][ChooseNext]_vars

(***************************************************************************)
(* payment-worker: one message of payment_queue and the workers that read  *)
(* it, over time.  queue.read makes the message invisible for               *)
(* visibility_timeout_seconds; the worker then awaits, one after the other, *)
(* the two health probes of choose_processor, the POST to the chosen        *)
(* processor, the POST to the other one if the first failed, the INSERT and *)
(* the archive.  A request ends at any time up to its timeout.              *)
(***************************************************************************)
\* The worker goes on to wait for a request with the given timeout.
Await(w, to, timeout) ==
    /\ lpc' = [lpc EXCEPT ![w] = to]
    /\ deadline' = [deadline EXCEPT ![w] = now + timeout]

\* Time passes, but not past the timeout of a request that is awaited.
lease_tick ==
    /\ now < MaxLeaseTime
    /\ \A w \in Workers :
          lpc[w] \in {"probe_default", "probe_fallback", "post", "post2"}
             => now < deadline[w]
    /\ now' = now + 1
    /\ UNCHANGED <<pipelineVars, serverVars, extVars, chooseVars, cacheVars, clock,
                   health, selectVars, last_probe, oracleVars, health_set_at,
                   leaseVars>>

\* queue.read(queue_name, Some(visibility_timeout_seconds)) returns the
\* message: it is visible and not archived.  choose_processor starts.
lease_read(w) ==
    /\ lpc[w] = "read"
    /\ ~archived
    /\ now >= vt
    /\ vt' = now + visibility_timeout_seconds
    /\ Await(w, "probe_default", check_health_timeout)
    /\ UNCHANGED <<pipelineVars, serverVars, extVars, chooseVars, cacheVars, clock,
                   health, selectVars, timeVars, oracleVars, health_set_at,
                   archived>>

\* update_health_if_needed returns (at once if no probe was due).
lease_probe_return(w) ==
    /\ lpc[w] \in {"probe_default", "probe_fallback"}
    /\ IF lpc[w] = "probe_default"
       THEN Await(w, "probe_fallback", check_health_timeout)
       ELSE Await(w, "post", post_timeout)
    /\ UNCHANGED <<pipelineVars, serverVars, extVars, chooseVars, cacheVars, clock,
                   health, selectVars, timeVars, oracleVars, health_set_at,
                   vt, archived>>

\* A POST returns Ok: the INSERT and the archive follow.
lease_post_ok(w) ==
    /\ lpc[w] \in {"post", "post2"}
    /\ lpc' = [lpc EXCEPT ![w] = "persist"]
    /\ UNCHANGED <<pipelineVars, serverVars, extVars, chooseVars, cacheVars, clock,
                   health, selectVars, timeVars, oracleVars, health_set_at,
                   vt, archived, deadline>>

\* A POST returns Err (status, network, timeout): the other processor is
\* tried, or, after the second failure, the message is archived.
lease_post_err(w) ==
    /\ lpc[w] \in {"post", "post2"}
    /\ IF lpc[w] = "post"
       THEN Await(w, "post2", post_timeout)
       ELSE lpc' = [lpc EXCEPT ![w] = "persist"] /\ UNCHANGED deadline
    /\ UNCHANGED <<pipelineVars, serverVars, extVars, chooseVars, cacheVars, clock,
                   health, selectVars, timeVars, oracleVars, health_set_at,
                   vt, archived>>

\* queue.archive returns Ok: the iteration is over.
lease_archive(w) ==
    /\ lpc[w] = "persist"
    /\ archived' = TRUE
    /\ lpc' = [lpc EXCEPT ![w] = "read"]
    /\ UNCHANGED <<pipelineVars, serverVars, extVars, chooseVars, cacheVars, clock,
                   health, selectVars, timeVars, oracleVars, health_set_at,
                   vt, deadline>>

LeaseNext ==
    \/ lease_tick
    \/ \E w \in Workers :
          \/ lease_read(w)
          \/ lease_probe_return(w)
          \/ lease_post_ok(w)
          \/ lease_post_err(w)
          \/ lease_archive(w)

SpecLease == Init /\ [][LeaseNext]_vars

(***************************************************************************)
(* health-checker/src/config.rs: HealthCheckerConfig::from_env.  The       *)
(* environment is set before the process starts; from_env reads it once.   *)
(* A text is a sequence of characters.                                      *)
(***************************************************************************)
DecimalDigits == <<"0", "1", "2", "3", "4", "5", "6", "7", "8", "9">>

is_digit(c) == \E i \in 1..Len(DecimalDigits) : DecimalDigits[i] = c

digit_value(c) == (CHOOSE i \in 1..Len(DecimalDigits) : DecimalDigits[i] = c) - 1

\* u64::to_string: the decimal digits, most significant first.
RECURSIVE to_string(_)
to_string(n) ==
    IF n < 10 THEN <<DecimalDigits[n + 1]>>
    ELSE Append(to_string(n \div 10), DecimalDigits[(n % 10) + 1])

\* str::parse::<u64>, digit by digit from the value read so far: Err on a
\* character that is no digit and on a value past the largest one.
RECURSIVE parse_digits(_, _)
parse_digits(text, acc) ==
    IF text = <<>> THEN [ok |-> TRUE, value |-> acc]
    ELSE IF ~is_digit(Head(text)) THEN [ok |-> FALSE, value |-> 0]
    ELSE IF acc * 10 + digit_value(Head(text)) > ConfigMax
         THEN [ok |-> FALSE, value |-> 0]
    ELSE parse_digits(Tail(text), acc * 10 + digit_value(Head(text)))

\* str::parse::<u64>: the empty text is an error too.
parse_u64(text) ==
    IF text = <<>> THEN [ok |-> FALSE, value |-> 0] ELSE parse_digits(text, 0)

\* std::env::var(name).unwrap_or_else(|_| default)
var_or(e, name, default) == IF e[name] = Unset THEN default ELSE e[name].text

\* The text each numeric field is parsed from.
numeric_text(e) ==
    [health_check_cycle_interval |->
         var_or(e, "HEALTH_CHECK_CYCLE_INTERVAL_SECS", <<"4">>),
     http_timeout |-> var_or(e, "HTTP_TIMEOUT_SECS", <<"1", "0">>),
     inter_check_delay |-> var_or(e, "INTER_CHECK_DELAY_MILLIS", <<"1", "0", "0">>),
     health_status_ttl |-> var_or(e, "HEALTH_STATUS_TTL_SECS", <<"3", "0">>),
     rate_limit_ttl |-> var_or(e, "RATE_LIMIT_TTL_SECS", <<"5">>),
     failed_response_time_value |->
         var_or(e, "FAILED_RESPONSE_TIME_VALUE", to_string(ConfigMax))]

\* The struct from_env builds once every parse has returned Ok.
HealthCheckerConfig(e) ==
    LET t == numeric_text(e) IN
    [redis_url |-> var_or(e, "REDIS_URL", <<"redis://redis:6379">>),
     health_check_cycle_interval |-> parse_u64(t.health_check_cycle_interval).value,
     http_timeout |-> parse_u64(t.http_timeout).value,
     inter_check_delay |-> parse_u64(t.inter_check_delay).value,
     health_status_ttl |-> parse_u64(t.health_status_ttl).value,
     rate_limit_ttl |-> parse_u64(t.rate_limit_ttl).value,
     default_processor_url |->
         var_or(e, "DEFAULT_PROCESSOR_URL", <<"http://payment-processor-default:8080">>),
     fallback_processor_url |->
         var_or(e, "FALLBACK_PROCESSOR_URL", <<"http://payment-processor-fallback:8080">>),
     failed_response_time_value |-> parse_u64(t.failed_response_time_value).value]

validate_without_rate_limit_ttl(c) ==
    /\ c.health_check_cycle_interval # 0
    /\ c.http_timeout # 0
    /\ c.health_status_ttl # 0
    /\ c.default_processor_url # <<>>
    /\ c.fallback_processor_url # <<>>

\* validate returns Ok(()).
validate(c) ==
    /\ c.health_check_cycle_interval # 0
    /\ c.http_timeout # 0
    /\ c.health_status_ttl # 0
    /\ c.rate_limit_ttl # 0
    /\ c.default_processor_url # <<>>
    /\ c.fallback_processor_url # <<>>

\* from_env: `?` returns the first parse error; validate's error is returned
\* likewise; otherwise Ok(config).
from_env(e) ==
    LET t == numeric_text(e) IN
    IF \E f \in DOMAIN t : ~parse_u64(t[f]).ok
    THEN [called |-> TRUE, ok |-> FALSE, error |-> "parse"]
    ELSE IF ~validate(HealthCheckerConfig(e))
    THEN [called |-> TRUE, ok |-> FALSE, error |-> "validate"]
    ELSE [called |-> TRUE, ok |-> TRUE, value |-> HealthCheckerConfig(e)]

\* The texts a deployment gives a variable.
EnvTexts(name) ==
    CASE name = "REDIS_URL" -> {<<"redis://cache:6379">>}
      [] name \in {"DEFAULT_PROCESSOR_URL", "FALLBACK_PROCESSOR_URL"} ->
             {<<>>, <<"http://processor:8080">>}
      [] name = "FAILED_RESPONSE_TIME_VALUE" ->
             {<<"0">>, <<"7">>, <<"x">>, <<"9", "9", "9">>}
      [] name = "INTER_CHECK_DELAY_MILLIS" -> {<<"0">>, <<>>}
      [] OTHER -> {<<"0">>, <<"7">>, <<"-", "1">>}

\* The deployment sets a variable, before the process starts.
setenv(name, text) ==
    /\ config = NotStarted
    /\ env[name] = Unset
    /\ env' = [env EXCEPT ![name] = [set |-> TRUE, text |-> text]]
    /\ UNCHANGED <<baseVars, mockVars, raceVars, wake, config>>

\* main calls HealthCheckerConfig::from_env()?.
config_from_env ==
    /\ config = NotStarted
    /\ config' = from_env(env)
    /\ UNCHANGED <<baseVars, mockVars, raceVars, wake, env>>

ConfigNext ==
    \/ \E name \in EnvNames : \E text \in EnvTexts(name) : setenv(name, text)
    \/ config_from_env

SpecConfig == Init /\ [][ConfigNext]_vars

(***************************************************************************)
(* health-checker: check_processor_health(default) called by tasks that    *)
(* share the store.  EXISTS rate_limit:{name} and SETEX rate_limit:{name}   *)
(* are two commands, each on a connection of its own; other commands may    *)
(* reach the store between them.  The store answers every command.          *)
(***************************************************************************)
\* A task calls check_processor_health.
race_call(m) ==
    /\ cpc[m] = "done"
    /\ cpc' = [cpc EXCEPT ![m] = "check"]
    /\ UNCHANGED <<baseVars, mockVars, configVars, wake, csaw, issued>>

\* check_rate_limit: Ok(false) ends the call with Ok(()), Ok(true) goes on.
race_check_rate_limit(m) ==
    /\ cpc[m] = "check"
    /\ IF check_rate_limit(token, "default", now)
       THEN /\ cpc' = [cpc EXCEPT ![m] = "set"]
            /\ csaw' = [csaw EXCEPT ![m] = now]
       ELSE /\ cpc' = [cpc EXCEPT ![m] = "done"]
            /\ UNCHANGED csaw
    /\ UNCHANGED <<baseVars, mockVars, configVars, wake, issued>>

\* set_rate_limit "immediately before making the call".
race_set_rate_limit(m) ==
    /\ cpc[m] = "set"
    /\ token' = set_rate_limit(token, "default", now)
    /\ cpc' = [cpc EXCEPT ![m] = "get"]
    /\ UNCHANGED <<pipelineVars, serverVars, clock, health, selectVars, timeVars,
                   rpc, rproc, ret, exchange, cacheVars, health_set_at,
                   chooseVars, leaseVars, configVars, wake, mockVars, csaw, issued>>

\* http_client.get: the probe is sent; the call ends when it returns.
race_http_get(m) ==
    /\ cpc[m] = "get"
    /\ issued' = [issued EXCEPT ![m] = csaw[m]]
    /\ cpc' = [cpc EXCEPT ![m] = "done"]
    /\ UNCHANGED <<baseVars, mockVars, configVars, wake, csaw>>

RaceNext ==
    \/ tick
    \/ \E m \in Monitors :
          \/ race_call(m)
          \/ race_check_rate_limit(m)
          \/ race_set_rate_limit(m)
          \/ race_http_get(m)

SpecRace == Init /\ [][RaceNext]_vars

(***************************************************************************)
(* health-checker/src/main.rs: the loop over monitor_all_processors, with  *)
(* the time its sleep takes.  The sleep lasts health_check_cycle_interval;  *)
(* a probe is answered within the second it is sent, the commands of the   *)
(* store and inter_check_delay (100 ms) take no time, and the store        *)
(* answers every command: the loop is as fast as it can be.  Redis drops a *)
(* key when its time to live is over.                                      *)
(***************************************************************************)
\* check_processor_health(rproc) has returned: fallback is next, or the sleep.
refresh_next ==
    IF rproc = "default"
    THEN rproc' = "fallback" /\ rpc' = "check" /\ UNCHANGED wake
    ELSE /\ rproc' = "default"
         /\ rpc' = "sleep"
         /\ wake' = now + health_check_cycle_interval

\* Time passes during the sleep.
refresh_tick ==
    /\ now < MaxStoreTime
    /\ rpc = "sleep"
    /\ now < wake
    /\ now' = now + 1
    /\ health' = [p \in Procs |->
                    IF key_expired(health_set_at[p], now + 1)
                    THEN NoVerdict ELSE health[p]]
    /\ UNCHANGED <<pipelineVars, serverVars, clock, selectVars, last_probe,
                   oracleVars, cacheVars, health_set_at, chooseVars, leaseVars,
                   configVars, raceVars, mockVars, wake>>

\* time::sleep(get_cycle_interval()) is over: the next cycle starts.
refresh_wake ==
    /\ rpc = "sleep"
    /\ now = wake
    /\ rpc' = "check"
    /\ UNCHANGED <<pipelineVars, serverVars, clock, health, selectVars, timeVars,
                   token, rproc, ret, exchange, cacheVars, health_set_at,
                   chooseVars, leaseVars, extVars>>

\* check_rate_limit finds the token: the call returns Ok(()).
refresh_skip ==
    /\ rpc = "check"
    /\ ~check_rate_limit(token, rproc, now)
    /\ refresh_next
    /\ UNCHANGED <<pipelineVars, serverVars, clock, health, selectVars, timeVars,
                   token, ret, exchange, cacheVars, health_set_at, chooseVars,
                   leaseVars, configVars, raceVars, mockVars>>

\* check_rate_limit finds no token: the token is set and the probe is sent.
refresh_probe ==
    /\ rpc = "check"
    /\ check_rate_limit(token, rproc, now)
    /\ token' = set_rate_limit(token, rproc, now)
    /\ rpc' = "wait"
    /\ UNCHANGED <<pipelineVars, serverVars, clock, health, selectVars, timeVars,
                   rproc, ret, exchange, cacheVars, health_set_at, chooseVars,
                   leaseVars, extVars>>

\* http_client.get returns and the call handles the result to its end.
refresh_return(raw) ==
    LET h == handle_response(ReqwestHttpClient_get(raw))
    IN  /\ rpc = "wait"
        /\ IF h.write
           THEN /\ health' = set_processor_health(health, rproc, h.verdict)
                /\ health_set_at' = [health_set_at EXCEPT ![rproc] = now]
           ELSE UNCHANGED <<health, health_set_at>>
        /\ refresh_next
        /\ UNCHANGED <<pipelineVars, serverVars, clock, selectVars, timeVars,
                       token, ret, exchange, cacheVars, chooseVars, leaseVars,
                       configVars, raceVars, mockVars>>

RefreshNext ==
    \/ refresh_tick
    \/ refresh_wake
    \/ refresh_skip
    \/ refresh_probe
    \/ \E raw \in RawExchanges : refresh_return(raw)

SpecRefresh == Init /\ [][RefreshNext]_vars

(***************************************************************************)
(* health-checker/src/health_storage.rs: the two implementations of        *)
(* HealthStorage, given the same calls at the same times.  Redis is the    *)
(* store of the other sections (health, health_set_at, token); the mock    *)
(* keeps two maps.  Times are in whole seconds.                             *)
(***************************************************************************)
\* RateLimitEntry::is_expired: timestamp.elapsed().as_secs() > ttl_seconds.
is_expired(timestamp, t) == t - timestamp > rate_limit_ttl

\* MockHealthStorage::check_rate_limit: Ok(true) without an entry or with an
\* expired one.
mock_check_rate_limit(rl, p, t) ==
    IF rl[p] # NoTime THEN is_expired(rl[p], t) ELSE TRUE

\* Time passes; Redis drops the keys whose time to live is over.
storage_tick ==
    /\ now < MaxStoreTime
    /\ now' = now + 1
    /\ health' = [p \in Procs |->
                    IF key_expired(health_set_at[p], now + 1)
                    THEN NoVerdict ELSE health[p]]
    /\ UNCHANGED <<pipelineVars, serverVars, clock, selectVars, last_probe,
                   oracleVars, cacheVars, health_set_at, chooseVars, leaseVars,
                   extVars>>

\* set_processor_health(p, v) on both: SETEX health:{name}; health_data.insert.
storage_set_processor_health(p, v) ==
    /\ health' = set_processor_health(health, p, v)
    /\ health_set_at' = [health_set_at EXCEPT ![p] = now]
    /\ health_data' = [health_data EXCEPT ![p] = v]
    /\ seen' = [op |-> "set_processor_health", redis |-> "ok", mock |-> "ok"]
    /\ UNCHANGED <<pipelineVars, serverVars, clock, selectVars, timeVars,
                   oracleVars, cacheVars, chooseVars, leaseVars, configVars,
                   raceVars, wake, rate_limits>>

\* get_processor_health(p) on both: GET health:{name}; health_data.get.
storage_get_processor_health(p) ==
    /\ seen' = [op |-> "get_processor_health", redis |-> health[p],
                mock |-> health_data[p]]
    /\ UNCHANGED <<baseVars, configVars, raceVars, wake, health_data, rate_limits>>

\* set_rate_limit(p) on both: SETEX rate_limit:{name}; rate_limits.insert.
storage_set_rate_limit(p) ==
    /\ token' = set_rate_limit(token, p, now)
    /\ rate_limits' = [rate_limits EXCEPT ![p] = now]
    /\ seen' = [op |-> "set_rate_limit", redis |-> "ok", mock |-> "ok"]
    /\ UNCHANGED <<pipelineVars, serverVars, clock, health, selectVars, timeVars,
                   rpc, rproc, ret, exchange, cacheVars, health_set_at,
                   chooseVars, leaseVars, configVars, raceVars, wake, health_data>>

\* check_rate_limit(p) on both: EXISTS rate_limit:{name}; the mock removes an
\* expired entry.
storage_check_rate_limit(p) ==
    /\ seen' = [op |-> "check_rate_limit",
                redis |-> check_rate_limit(token, p, now),
                mock |-> mock_check_rate_limit(rate_limits, p, now)]
    /\ rate_limits' = IF rate_limits[p] # NoTime /\ is_expired(rate_limits[p], now)
                      THEN [rate_limits EXCEPT ![p] = NoTime]
                      ELSE rate_limits
    /\ UNCHANGED <<baseVars, configVars, raceVars, wake, health_data>>

StorageNext ==
    \/ storage_tick
    \/ \E p \in {"default"} :
          \/ \E v \in StoreVerdicts : storage_set_processor_health(p, v)
          \/ storage_get_processor_health(p)
          \/ storage_set_rate_limit(p)
          \/ storage_check_rate_limit(p)

SpecStorage == Init /\ [][StorageNext]_vars

(***************************************************************************)
(* Claims.                                                                 *)
(***************************************************************************)
Rows(c) == {r \in ledger : r.cid = c}

AllFailed(w) == attempts[w] # <<>> /\ ~Has2xx(w)

\* C1: a message whose dispatch failed (every processor call of the delivery
\* ended in non-2xx or a network error) is never archived by the worker: it
\* stays in the queue for redelivery.
C1_FailedDispatchNeverAcked ==
    \A w \in Workers : AllFailed(w) => ack[w] # "ok"

\* C2: POST /payments answers 202 only if the message was committed to the
\* queue and 500 whenever the enqueue fails; judged once the send has ended.
C2_AcceptedIffEnqueued ==
    \A r \in 1..Len(responses) :
       enq[r] # "pending" => (responses[r].status = 202 <=> enq[r] = "ok")

\* C3: every payment accepted at ingress eventually has exactly one Ledger
\* row with its correlation_id, given that processors do not fail for ever.
Accepted(r) == r <= Len(responses) /\ responses[r].status = 202

Recorded(r) == r <= Len(responses) /\ Cardinality(Rows(responses[r].cid)) = 1

C3_AcceptedEventuallyRecorded ==
    \A r \in Reqs : [](Accepted(r) => <>Recorded(r))

\* C4: no two Ledger rows share a correlation_id, whatever the interleaving
\* of workers, redeliveries and duplicate submissions.
C4_UniqueCorrelationId ==
    \A r1, r2 \in ledger : r1.cid = r2.cid => r1 = r2

\* C4 witness: a correlation_id was submitted twice, both submissions were
\* answered 202 and enqueued, and the second insert met the row of the first.
C4_Witness ==
    /\ \E r1, r2 \in 1..Len(responses) :
          /\ r1 # r2
          /\ responses[r1].cid = responses[r2].cid
          /\ responses[r1].status = 202 /\ responses[r2].status = 202
          /\ enq[r1] = "ok" /\ enq[r2] = "ok"
    /\ \E w \in Workers :
          /\ persist[w] = "conflict"
          /\ \E row \in ledger : row.cid = cur[w].cid /\ row.at # cur[w].at

\* C5: recording is first-writer-wins: once a record is stored under a
\* correlation_id, a later record call for the same correlation_id leaves the
\* stored record (processor, amount, requested_at) as the first call wrote it.
C5_FirstWriterWins ==
    [][\A c \in CidSet :
         payments_storage[c] # NoRecord =>
            payments_storage'[c] = payments_storage[c]]_vars

\* The same property of the table processed_payments, which the worker's
\* INSERT ... ON CONFLICT DO NOTHING keeps.
LedgerFirstWriterWins ==
    [][\A row \in ledger : row \in ledger']_vars

\* C11: no double charge: for each message, at most one processor call made
\* on its behalf returns 2xx, over all workers, processors and redeliveries.
C11_NoDoubleCharge ==
    \A i \in 1..MaxMsg : charged[i] <= 1

\* The verdicts in the store, for the claims on get_best_processor.
D == health["default"]

F == health["fallback"]

Selected == best # "none"

\* C12: with both verdicts present and default not failing, get_best_processor
\* returns default unless fallback.min_response_time * 2 <
\* default.min_response_time; with both healthy and that inequality it
\* returns fallback.
C12_DefaultUnlessTwiceFaster ==
    (Selected /\ D.present /\ F.present /\ ~D.failing) =>
       /\ ~(F.min_response_time * 2 < D.min_response_time) => best = "default"
       /\ (~F.failing /\ F.min_response_time * 2 < D.min_response_time)
             => best = "fallback"

\* C13: with both verdicts present, get_best_processor returns the healthy
\* processor when exactly one is healthy, and the one with the smaller
\* min_response_time when both are failing.
C13_OneHealthyOrFasterFailing ==
    (Selected /\ D.present /\ F.present) =>
       /\ (~D.failing /\ F.failing) => best = "default"
       /\ (D.failing /\ ~F.failing) => best = "fallback"
       /\ (D.failing /\ F.failing /\ F.min_response_time < D.min_response_time)
             => best = "fallback"
       /\ (D.failing /\ F.failing /\ D.min_response_time < F.min_response_time)
             => best = "default"

\* C13 witness: both failing, fallback answers faster, fallback is returned.
C13_Witness ==
    /\ best = "fallback"
    /\ D.present /\ F.present /\ D.failing /\ F.failing
    /\ F.min_response_time < D.min_response_time

C15_WorkerFollowsOracle ==
    (Selected /\ best # "panic" /\ D.present /\ F.present) => picked = best

\* The time between the last two probes of p.
Gap(p) == last_probe[p].last - last_probe[p].prev

TwoProbes(p) == last_probe[p].prev # NoTime

C17_CacheProbesApart ==
    \A p \in Procs :
       (last_probe[p].prev # NoTime) =>
          last_probe[p].last - last_probe[p].prev >= min_check_interval

\* C18 as claimed: the token of p is in the store during the whole HTTP call
\* of a probe of p.
C18_TokenPresentDuringCall ==
    rpc = "wait" => now < token[rproc]

\* C18 as amended: in check_processor_health the token of p is written
\* before the probe is sent: a probe is sent only from the position reached
\* by a set_rate_limit that returned Ok, which wrote the token with the full
\* rate_limit_ttl; the token is not touched during the call, and it expires
\* rate_limit_ttl after its write whether the call has ended or not.
C18_TokenWrittenBeforeProbe ==
    [][/\ (rpc' = "wait" /\ rpc # "wait") => rpc = "get"
       /\ (rpc' = "get" /\ rpc # "get") =>
             (rpc = "set" /\ token'[rproc] = now + rate_limit_ttl)
       /\ rpc \in {"get", "wait"} => token'[rproc] = token[rproc]]_vars

\* C18 witness: a probe has just been sent and its token is in the store.
C18_Witness ==
    /\ rpc = "wait"
    /\ last_probe[rproc].last = now
    /\ now < token[rproc]

\* A step of check_processor_health taken from its first await while the
\* token of the processor is in the store.
Suppressed == rpc = "check" /\ now < token[rproc] /\ ret' # ret

\* C19 as claimed: check_processor_health called while the token is present
\* sends no request, leaves verdict and token unchanged, and returns Ok.
C19_SuppressedReturnsOk ==
    [][Suppressed =>
         /\ last_probe' = last_probe /\ health' = health /\ token' = token
         /\ rpc' = "check" /\ ret'.result = "Ok"]_vars

\* C19 as amended: check_processor_health called while the token is present
\* sends no request and leaves verdict and token unchanged; it returns Ok if
\* check_rate_limit answered, and the Err of check_rate_limit if the store
\* could not be read.
C19_SuppressedLeavesAll ==
    [][(rpc = "check" /\ now < token[rproc]) =>
         /\ last_probe' = last_probe /\ health' = health /\ token' = token
         /\ rpc' = "check"
         /\ ret' # ret => \/ ret' = [result |-> "Ok", at |-> "check_rate_limit"]
                          \/ ret' = [result |-> "Err", at |-> "check_rate_limit"]]_vars

\* C19 witness: a call has just returned Ok from the rate-limit check, with
\* the token of its processor in the store and the probe before it on record.
C19_Witness ==
    /\ ret = [result |-> "Ok", at |-> "check_rate_limit"]
    /\ \E p \in Procs :
          /\ rproc = next_processor(p, "Ok")
          /\ now < token[p]
          /\ last_probe[p].last # NoTime

\* C20: when a probe ends in a network failure or a non-2xx response (and
\* the store takes the write), the verdict stored for the processor is
\* failing = true with min_response_time = failed_response_time_value.
C20_FailedProbeStoresFailing ==
    [][(rpc = "wait" /\ rpc' # "wait"
        /\ (exchange'.net = "error" \/ exchange'.status \notin 200..299)
        /\ exchange'.stored # "err")
         => health'[rproc] =
               ProcessorHealthStatus(TRUE, failed_response_time_value)]_vars

\* C21: when the processor answers a probe with 2xx and a body
\* {failing: f, minResponseTime: t} and the store takes the write,
\* check_processor_health stores exactly the verdict (f, t) for the processor.
C21_ProbedVerdictStored ==
    [][(rpc = "wait" /\ rpc' # "wait"
        /\ exchange'.net = "ok" /\ exchange'.status \in 200..299
        /\ exchange'.body.kind = "health_object"
        /\ exchange'.stored # "err")
         => health'[rproc] =
               ProcessorHealthStatus(exchange'.body.failing,
                                     exchange'.body.min_response_time)]_vars

C23_SelectWithoutRequests ==
    wpc = "post" => select_requests = 0

\* C24: no lock is held across an I/O suspension point: while the worker's
\* task waits on an HTTP call (health probe or payment dispatch), neither the
\* read nor the write lock of the health cache is held.
C24_NoLockAcrossIo ==
    wpc \in {"probe", "post", "post2"} => cache_lock = "free"

\* C25 as claimed: the requested_at of a payment is fixed at ingress: a
\* message in the queue keeps the value it was enqueued with, every delivery
\* carries the queue's message, and the requestedAt sent to the processor and
\* the requested_at stored in the ledger both equal the message's value.
C25_RequestedAtFixed ==
    [][/\ \A m \in queue : m.id \in Ids(queue') => m \in queue'
       /\ \A w \in Workers :
             /\ (cur'[w] # cur[w] /\ cur'[w].valid) => cur'[w] \in queue
             /\ \A i \in 1..Len(attempts'[w]) :
                   parse_from_rfc3339(attempts'[w][i].requested_at) = cur'[w].at
       /\ \A row \in ledger' \ ledger :
             \E w \in Workers : row.cid = cur[w].cid /\ row.at = cur[w].at]_vars

\* C25 as amended: as claimed for the queue, the deliveries and the
\* requestedAt sent to the processor; the requested_at stored in the ledger
\* is the message's value cut down to whole microseconds.  Neither is the
\* time of the dispatch.
C25_RequestedAtKept ==
    [][/\ \A m \in queue : m.id \in Ids(queue') => m \in queue'
       /\ \A w \in Workers :
             /\ (cur'[w] # cur[w] /\ cur'[w].valid) => cur'[w] \in queue
             /\ \A i \in 1..Len(attempts'[w]) :
                   parse_from_rfc3339(attempts'[w][i].requested_at) = cur'[w].at
       /\ \A row \in ledger' \ ledger :
             \E w \in Workers :
                /\ row.cid = cur[w].cid
                /\ row.at = timestamptz(cur[w].at)]_vars

\* C25 witness: a redelivered message was dispatched and its row inserted
\* after the clock had moved on from the message's requested_at.
C25_Witness ==
    \E w \in Workers :
       /\ persist[w] = "inserted"
       /\ charged[cur[w].id] >= 1
       /\ \E w2 \in Workers : w2 # w /\ cur[w2] = cur[w]
       /\ Len(attempts[w]) >= 1
       /\ parse_from_rfc3339(attempts[w][1].requested_at) = cur[w].at
       /\ clock > cur[w].at
       /\ \E row \in ledger :
             row.cid = cur[w].cid /\ row.at = timestamptz(cur[w].at)

\* C26: the handler of POST /payments answers without making or waiting for
\* a call to a payment processor: no handler of the single-binary server is
\* ever waiting for a processor.
C26_IngressCallsNoProcessor ==
    \A r \in 1..Len(requests) : requests[r].pc \notin {"send", "fallback"}

\* C27: for every window, the summary's default.totalRequests +
\* fallback.totalRequests is the number of distinct correlation_ids recorded
\* for that window, also after duplicate submissions of a correlation_id.
C27_SummaryCountsDistinctIds ==
    \A from \in 0..MaxReq + 1, to \in 0..MaxReq + 1 :
       LET summary == server_payments_summary(stats, from, to)
           recorded == {c \in CidSet :
                          /\ payments_storage[c] # NoRecord
                          /\ payments_storage[c].requested_at >= from
                          /\ payments_storage[c].requested_at <= to}
       IN  summary["default"].total_requests + summary["fallback"].total_requests
              = Cardinality(recorded)

\* C28: no message is processed by two workers at the same time: a worker
\* that is processing the message holds it invisible to the others until it
\* has archived it (the visibility timeout outlasts the iteration), and at
\* most one worker is processing it.
C28_OneWorkerPerMessage ==
    /\ \A w \in Workers : lpc[w] # "read" => now < vt
    /\ Cardinality({w \in Workers : lpc[w] # "read"}) <= 1

\* The probe that has just come back failed: http_client.get returned Err,
\* or a status that is not 2xx, or a 2xx body that is no health response.
ProbeFailed(x) ==
    LET resp == ReqwestHttpClient_get(x)
    IN  ~resp.ok \/ ~resp.is_success \/ ~json_is_ok(resp.body)

C30_DefaultThenFallback ==
    [][ret' # ret =>
          rproc' = (IF rproc = "default" THEN "fallback" ELSE "default")]_vars

\* The call that returned last was for default, made a probe, and the probe
\* came back with 2xx and a body that cannot be parsed.
DefaultProbeUnparseable ==
    /\ ret = [result |-> "Ok", at |-> "response"]
    /\ rproc = "fallback"
    /\ exchange.net = "ok" /\ exchange.status \in 200..299
    /\ exchange.body.kind \in {"other_string", "not_json"}
    /\ exchange.stored = "ok"

\* C31: after a probe of default that returns 2xx with a body that cannot be
\* parsed, and with no verdict stored for fallback, get_best_processor
\* returns default.
C31_UnparseableKeepsDefault ==
    (Selected /\ DefaultProbeUnparseable /\ ~F.present) => best = "default"

C7_PoisonAckedAndDropped ==
    \A w \in Workers :
       (cur[w].id # 0 /\ ~cur[w].valid) =>
          (pc[w] # "returned" /\ cur[w].id \notin Ids(queue))

C9_WorkerNeverReturns ==
    \A w \in Workers : pc[w] # "returned"

Setting(f) == parse_u64(numeric_text(env)[f])

EveryNumberParses == \A f \in DOMAIN numeric_text(env) : Setting(f).ok

ZeroOrEmpty ==
    \/ \E f \in {"health_check_cycle_interval", "http_timeout",
                 "health_status_ttl", "rate_limit_ttl"} : Setting(f).value = 0
    \/ \E n \in {"DEFAULT_PROCESSOR_URL", "FALLBACK_PROCESSOR_URL"} :
          env[n] # Unset /\ Len(env[n].text) = 0

\* C32: when every numeric variable parses, from_env returns an error exactly
\* when the cycle interval, the HTTP timeout, the health-status TTL or the
\* rate-limit TTL is 0 or a processor URL is empty; otherwise it returns a
\* configuration whose numeric fields are the parsed values and whose URLs
\* are the texts of the environment.
C32_FromEnvValidates ==
    (config # NotStarted /\ EveryNumberParses) =>
        /\ config.ok <=> ~ZeroOrEmpty
        /\ config.ok =>
              /\ \A f \in DOMAIN numeric_text(env) :
                    config.value[f] = Setting(f).value
              /\ \A n \in {"DEFAULT_PROCESSOR_URL", "FALLBACK_PROCESSOR_URL"} :
                    env[n] # Unset =>
                       config.value[IF n = "DEFAULT_PROCESSOR_URL"
                                    THEN "default_processor_url"
                                    ELSE "fallback_processor_url"] = env[n].text

C32_Witness ==
    /\ config # NotStarted /\ EveryNumberParses
    /\ ~config.ok
    /\ env["RATE_LIMIT_TTL_SECS"] # Unset
    /\ Setting("rate_limit_ttl").value = 0
    /\ Setting("health_status_ttl").value = 7
    /\ env["DEFAULT_PROCESSOR_URL"] # Unset
    /\ env["DEFAULT_PROCESSOR_URL"].text # <<>>
    /\ env["FALLBACK_PROCESSOR_URL"] = Unset

\* C33: the comparison of get_best_processor never overflows: a fallback whose
\* min_response_time is so large that twice it is not a u64 is never chosen
\* over a healthy default, and the selection returns a processor.
C33_LargeFallbackNeverChosen ==
    (Selected /\ D.present /\ F.present /\ ~D.failing /\ ~F.failing
       /\ F.min_response_time * 2 >= Wrap) => best = "default"

\* C34: a row of processed_payments names a processor whose call for the
\* message returned 2xx: the row a worker inserts names a processor one of its
\* calls of this delivery got 2xx from, and, when the processor chosen first
\* failed and the other one succeeded, it names the other one.
C34_RowNamesPaidProcessor ==
    [][\A r \in ledger' \ ledger :
          \E w \in Workers :
             /\ pc[w] = "save"
             /\ r.cid = cur[w].cid
             /\ \E i \in 1..Len(attempts[w]) :
                   attempts[w][i].ok /\ attempts[w][i].proc = r.processor
             /\ \A i \in 1..Len(attempts[w]) :
                   ~attempts[w][i].ok => attempts[w][i].proc # r.processor
             /\ (Len(attempts[w]) = 2) =>
                   r.processor = other_processor(chosen[w])]_vars

C34_Witness ==
    \E w \in Workers :
       /\ persist[w] = "inserted"
       /\ chosen[w] = "default"
       /\ Len(attempts[w]) = 2
       /\ \E r \in ledger : r.cid = cur[w].cid /\ r.processor = "fallback"

\* C35: check_rate_limit followed by set_rate_limit acts as a test-and-set:
\* of the calls for default whose check_rate_limit found no token less than
\* rate_limit_ttl apart, at most one sends the probe.
C35_OneProbePerWindow ==
    \A a, b \in Monitors :
       (a # b /\ issued[a] # NoTime /\ issued[b] # NoTime) =>
          \/ issued[a] - issued[b] >= rate_limit_ttl
          \/ issued[b] - issued[a] >= rate_limit_ttl

\* C36: a probe answered with HTTP 429 leaves the stored verdict as it was
\* (no SETEX of health:{name}, so neither its value nor its expiry changes),
\* and the rate-limit token set before the probe stays.
C36_RateLimitedKeepsVerdict ==
    [][(rpc = "wait" /\ rpc' # "wait"
        /\ exchange'.net = "ok" /\ exchange'.status = 429)
         => /\ exchange'.stored = "none"
            /\ health' = health
            /\ token' = token]_vars

\* C37: while the loop runs and the store answers, a verdict that has been
\* written never becomes absent again, whatever the probes return.
C37_VerdictNeverAbsentAgain ==
    \A p \in Procs : health_set_at[p] # NoTime => health[p].present

\* C38: MockHealthStorage and RedisHealthStorage are observationally
\* equivalent: given the same calls at the same times, every call returns the
\* same on both (a verdict is absent after health_status_ttl, a token after
\* exactly rate_limit_ttl).
C38_SameObservations == seen.redis = seen.mock

=============================================================================
